---- MODULE Spec2Model ----
(***************************************************************************)
(* Transaction normalisation, metrics and filtering pipeline of the       *)
(* e-invoice dashboard (services/transactionService.ts, the backend       *)
(* transactions.web.ts and the dashboard page).                            *)
(*                                                                         *)
(* Representation of JavaScript values:                                    *)
(*  - a string is a sequence of one-character strings, so toLowerCase and  *)
(*    includes are computed character by character;                        *)
(*  - undefined (an absent optional string) is the one-element sequence    *)
(*    <<"undefined">>, which no string of characters equals;               *)
(*  - a number is a binary floating-point value [nan, v]: v counts units   *)
(*    of 2^-FracBits and every arithmetic result is rounded to             *)
(*    MantissaBits significant bits, ties to even (IEEE-754 binary64 has   *)
(*    53; the format is scaled down so that the values fit TLC integers);  *)
(*  - an instant is a whole number of days counted from 2024-12-31, so     *)
(*    that '2025-01-15T..' is day 15; an ISO date string is the instant it *)
(*    denotes; an absent date is <<>> and a present one <<day>>.           *)
(***************************************************************************)
EXTENDS Integers, Sequences, FiniteSets, TLC

(***************************************************************************)
(* Bounds of the model.                                                    *)
(***************************************************************************)
\* significant bits of a number (53 in the program)
MantissaBits == 11
\* binary digits after the point of the smallest number unit
FracBits == 2
\* longest collection handed to calculateMetrics and applyFilters
MaxTx == 3

(***************************************************************************)
(* Strings.                                                                *)
(***************************************************************************)
undefined == <<"undefined">>

\* ToBoolean of a string | undefined: undefined and '' are falsy
Falsy(s) == s = undefined \/ s = <<>>

\* a || b on strings
OrElse(a, b) == IF Falsy(a) THEN b ELSE a

UpperToLower ==
  [A |-> "a", B |-> "b", C |-> "c", D |-> "d", E |-> "e", F |-> "f", G |-> "g", H |-> "h", I |-> "i", J |-> "j", K |-> "k", L |-> "l", M |-> "m",
   N |-> "n", O |-> "o", P |-> "p", Q |-> "q", R |-> "r", S |-> "s", T |-> "t", U |-> "u", V |-> "v", W |-> "w", X |-> "x", Y |-> "y", Z |-> "z"]


\* String.prototype.toLowerCase
toLowerCase(s) ==
  [i \in 1..Len(s) |->
     IF s[i] \in DOMAIN UpperToLower THEN UpperToLower[s[i]] ELSE s[i]]

\* String.prototype.includes
includes(s, q) ==
  \E i \in 0..(Len(s) - Len(q)) : SubSeq(s, i + 1, i + Len(q)) = q

(***************************************************************************)
(* Numbers.                                                                *)
(***************************************************************************)
NaN == [nan |-> TRUE, v |-> 0]

Num(v) == [nan |-> FALSE, v |-> v]

RECURSIVE Pow2(_)
Pow2(n) == IF n = 0 THEN 1 ELSE 2 * Pow2(n - 1)

RECURSIVE Pow10(_)
Pow10(n) == IF n = 0 THEN 1 ELSE 10 * Pow10(n - 1)

Abs(x) == IF x < 0 THEN 0 - x ELSE x

\* number of binary digits of a natural number
RECURSIVE BitLen(_)
BitLen(x) == IF x = 0 THEN 0 ELSE 1 + BitLen(x \div 2)

\* n / d (n >= 0, d > 0) rounded to the nearest integer, ties to even
RoundHalfEven(n, d) ==
  LET q == n \div d
      r == n % d
  IN  IF 2 * r < d THEN q
      ELSE IF 2 * r > d THEN q + 1
      ELSE IF q % 2 = 0 THEN q ELSE q + 1

\* the exact value x (an integer count of units) rounded to a representable
\* one: at most MantissaBits significant bits, ties to even
Round(x) ==
  LET a == Abs(x)
      k == BitLen(a)
  IN  IF k <= MantissaBits THEN x
      ELSE LET q == Pow2(k - MantissaBits)
               m == RoundHalfEven(a, q) * q
           IN  IF x < 0 THEN 0 - m ELSE m

\* a + b and a - b on numbers
FAdd(a, b) == IF a.nan \/ b.nan THEN NaN ELSE Num(Round(a.v + b.v))

FSub(a, b) == IF a.nan \/ b.nan THEN NaN ELSE Num(Round(a.v - b.v))

\* a === b on numbers: NaN equals nothing, not even itself
StrictEq(a, b) == ~a.nan /\ ~b.nan /\ a.v = b.v

\* the number whole.hundredths, for a value the format holds exactly
Dec(whole, hundredths) ==
  Num(((whole * 100 + hundredths) * Pow2(FracBits)) \div 100)

(***************************************************************************)
(* String literals of the program.                                         *)
(***************************************************************************)
APPROVED == <<"A","P","P","R","O","V","E","D">>

PENDING == <<"P","E","N","D","I","N","G">>

DECLINED == <<"D","E","C","L","I","N","E","D">>

REFUNDED == <<"R","E","F","U","N","D","E","D">>

CANCELLED == <<"C","A","N","C","E","L","L","E","D">>

AUTHORIZED == <<"A","U","T","H","O","R","I","Z","E","D">>

CANCELED == <<"C","A","N","C","E","L","E","D">>

PARTIALLY_REFUNDED == <<"P","A","R","T","I","A","L","L","Y","_","R","E","F","U","N","D","E","D">>

PENDING_MERCHANT == <<"P","E","N","D","I","N","G","_","M","E","R","C","H","A","N","T">>

all == <<"a","l","l">>

EUR == <<"E","U","R">>

Unknown == <<"U","n","k","n","o","w","n">>

Customer == <<"C","u","s","t","o","m","e","r">>

Refund == <<"R","e","f","u","n","d">>

PAYMENT == <<"P","A","Y","M","E","N","T">>

REFUND == <<"R","E","F","U","N","D">>

CustomerExampleCom == <<"c","u","s","t","o","m","e","r","@","e","x","a","m","p","l","e",".","c","o","m">>

TxnPrefix == <<"T","X","N","-">>

RefPrefix == <<"R","E","F","-">>

OrderHash == <<"O","r","d","e","r"," ","#">>

PaymentSuffix == <<" ","p","a","y","m","e","n","t">>

RefundSuffix == <<" ","r","e","f","u","n","d">>

UndefinedText == <<"u","n","d","e","f","i","n","e","d">>

ZeroText == <<"0">>


\* the closed set of canonical statuses (Transaction['status'])
CanonicalStatus == {APPROVED, PENDING, DECLINED, REFUNDED, CANCELLED}

(***************************************************************************)
(* Instants.                                                               *)
(***************************************************************************)
\* clock ticks per day (86,400,000 milliseconds in the program)
TicksPerDay == 2

\* the instant of the ISO string 2025-01-<day>T<hour>:<minute>:00Z
IsoInstant(day, hour, minute) ==
  day * TicksPerDay + ((hour * 60 + minute) * TicksPerDay) \div 1440

\* a date no record carries, and a date one does
NoDate == <<>>

DateOf(t) == <<t>>

(***************************************************************************)
(* The synthetic dataset.                                                  *)
(***************************************************************************)
getMockTransactions ==
  <<
    [id |-> <<"T","X","N","-","0","0","1">>,
     amount |-> Dec(250, 0),
     currency |-> EUR,
     status |-> APPROVED,
     paymentMethod |-> <<"C","r","e","d","i","t"," ","C","a","r","d">>,
     customerName |-> <<"J","o","h","n"," ","D","o","e">>,
     customerEmail |-> <<"j","o","h","n",".","d","o","e","@","e","x","a","m","p","l","e",".","c","o","m">>,
     createdDate |-> IsoInstant(15, 10, 30),
     description |-> <<"I","n","v","o","i","c","e"," ","#","I","N","V","-","0","0","1"," ","p","a","y","m","e","n","t">>,
     provider |-> undefined,
     providerTransactionId |-> undefined,
     type |-> undefined],
    [id |-> <<"T","X","N","-","0","0","2">>,
     amount |-> Dec(180, 50),
     currency |-> EUR,
     status |-> APPROVED,
     paymentMethod |-> <<"P","a","y","P","a","l">>,
     customerName |-> <<"J","a","n","e"," ","S","m","i","t","h">>,
     customerEmail |-> <<"j","a","n","e",".","s","m","i","t","h","@","e","x","a","m","p","l","e",".","c","o","m">>,
     createdDate |-> IsoInstant(14, 14, 22),
     description |-> <<"I","n","v","o","i","c","e"," ","#","I","N","V","-","0","0","2"," ","p","a","y","m","e","n","t">>,
     provider |-> undefined,
     providerTransactionId |-> undefined,
     type |-> undefined],
    [id |-> <<"T","X","N","-","0","0","3">>,
     amount |-> Dec(320, 75),
     currency |-> EUR,
     status |-> PENDING,
     paymentMethod |-> <<"B","a","n","k"," ","T","r","a","n","s","f","e","r">>,
     customerName |-> <<"M","i","k","e"," ","J","o","h","n","s","o","n">>,
     customerEmail |-> <<"m","i","k","e",".","j","o","h","n","s","o","n","@","e","x","a","m","p","l","e",".","c","o","m">>,
     createdDate |-> IsoInstant(13, 9, 45),
     description |-> <<"I","n","v","o","i","c","e"," ","#","I","N","V","-","0","0","3"," ","p","a","y","m","e","n","t">>,
     provider |-> undefined,
     providerTransactionId |-> undefined,
     type |-> undefined],
    [id |-> <<"T","X","N","-","0","0","4">>,
     amount |-> Dec(95, 0),
     currency |-> EUR,
     status |-> DECLINED,
     paymentMethod |-> <<"C","r","e","d","i","t"," ","C","a","r","d">>,
     customerName |-> <<"S","a","r","a","h"," ","W","i","l","s","o","n">>,
     customerEmail |-> <<"s","a","r","a","h",".","w","i","l","s","o","n","@","e","x","a","m","p","l","e",".","c","o","m">>,
     createdDate |-> IsoInstant(12, 16, 10),
     description |-> <<"I","n","v","o","i","c","e"," ","#","I","N","V","-","0","0","4"," ","p","a","y","m","e","n","t">>,
     provider |-> undefined,
     providerTransactionId |-> undefined,
     type |-> undefined],
    [id |-> <<"T","X","N","-","0","0","5">>,
     amount |-> Dec(450, 25),
     currency |-> EUR,
     status |-> REFUNDED,
     paymentMethod |-> <<"C","r","e","d","i","t"," ","C","a","r","d">>,
     customerName |-> <<"D","a","v","i","d"," ","B","r","o","w","n">>,
     customerEmail |-> <<"d","a","v","i","d",".","b","r","o","w","n","@","e","x","a","m","p","l","e",".","c","o","m">>,
     createdDate |-> IsoInstant(11, 11, 30),
     description |-> <<"I","n","v","o","i","c","e"," ","#","I","N","V","-","0","0","5"," ","p","a","y","m","e","n","t"," ","r","e","f","u","n","d">>,
     provider |-> undefined,
     providerTransactionId |-> undefined,
     type |-> undefined]
  >>

(***************************************************************************)
(* Number <-> string conversions.                                          *)
(***************************************************************************)
DigitValue ==
  ("0" :> 0) @@ ("1" :> 1) @@ ("2" :> 2) @@ ("3" :> 3) @@ ("4" :> 4) @@
  ("5" :> 5) @@ ("6" :> 6) @@ ("7" :> 7) @@ ("8" :> 8) @@ ("9" :> 9)

DigitChar == <<"0", "1", "2", "3", "4", "5", "6", "7", "8", "9">>

IsDigit(c) == c \in DOMAIN DigitValue

\* how many decimal digits s holds from position i on
RECURSIVE DigitRun(_, _)
DigitRun(s, i) ==
  IF i <= Len(s) /\ IsDigit(s[i]) THEN 1 + DigitRun(s, i + 1) ELSE 0

\* the value of the n decimal digits of s from position i on
RECURSIVE DigitsValue(_, _, _)
DigitsValue(s, i, n) ==
  IF n = 0 THEN 0
  ELSE 10 * DigitsValue(s, i, n - 1) + DigitValue[s[i + n - 1]]

\* parseFloat: the longest prefix [sign] digits [. digits] or [sign] . digits
\* of s as a number, NaN when s has no such prefix (strings with leading
\* white space, an exponent or 'Infinity' are not among the inputs)
parseFloat(s) ==
  LET signed == Len(s) >= 1 /\ s[1] \in {"-", "+"}
      neg    == Len(s) >= 1 /\ s[1] = "-"
      i0     == IF signed THEN 2 ELSE 1
      nInt   == DigitRun(s, i0)
      dot    == i0 + nInt
      hasDot == dot <= Len(s) /\ s[dot] = "."
      nFrac  == IF hasDot THEN DigitRun(s, dot + 1) ELSE 0
      whole  == DigitsValue(s, i0, nInt)
      frac   == DigitsValue(s, dot + 1, nFrac)
      units  == RoundHalfEven((whole * Pow10(nFrac) + frac) * Pow2(FracBits),
                              Pow10(nFrac))
  IN  IF nInt = 0 /\ nFrac = 0 THEN NaN
      ELSE Num(Round(IF neg THEN 0 - units ELSE units))

\* the decimal digits of a natural number (template-literal conversion)
RECURSIVE Digits(_)
Digits(n) ==
  IF n < 10 THEN <<DigitChar[n + 1]>>
  ELSE Digits(n \div 10) \o <<DigitChar[(n % 10) + 1]>>

\* `${x}` of a string | undefined
ToText(s) == IF s = undefined THEN UndefinedText ELSE s

(***************************************************************************)
(* Provider records.  null stands for a null or absent object; a present   *)
(* object is a record of its fields, each a string or undefined.           *)
(*   payment: [_id, amount: null | [amount, currency],                     *)
(*             regularPaymentDetails: null | [status, paymentMethod,       *)
(*             providerTransactionId], _createdDate]                       *)
(*   refund:  [_id, refunded: null | [amount, currency], _createdDate,     *)
(*             providerRefundId]   (summary.refunded, transactions[0])     *)
(*   order:   [_id, number, currency, buyerInfo: null | [firstName,        *)
(*             lastName, email], contactDetails: null | [firstName,        *)
(*             lastName]]          (billingInfo.contactDetails)            *)
(*   orderTx: [orderId, payments: NoList | ListOf(..),                     *)
(*             refunds: NoList | ListOf(..)]                               *)
(***************************************************************************)
null == [null |-> TRUE]

\* obj?.field for a string field
Opt(obj, field) == IF obj = null THEN undefined ELSE obj[field]

\* obj?.field for an object field
OptObj(obj, field) == IF obj = null THEN null ELSE obj[field]

\* an array-valued field: absent, or present with its elements
NoList == [present |-> FALSE, items |-> <<>>]

ListOf(items) == [present |-> TRUE, items |-> items]

\* getCustomerNameFromOrder
getCustomerNameFromOrder(order) ==
  LET contact == OptObj(order, "contactDetails")
      buyer   == OptObj(order, "buyerInfo")
  IN  IF contact # null /\ ~Falsy(contact.firstName) /\ ~Falsy(contact.lastName)
        THEN contact.firstName \o <<" ">> \o contact.lastName
      ELSE IF ~Falsy(Opt(buyer, "firstName")) /\ ~Falsy(Opt(buyer, "lastName"))
        THEN buyer.firstName \o <<" ">> \o buyer.lastName
      ELSE Customer

\* faulty variant of mapStatus: the provider's CANCELED taken for CANCELLED
mapStatusCanceledAsCancelled(paymentStatus) ==
  IF Falsy(paymentStatus) THEN PENDING
  ELSE IF paymentStatus = APPROVED \/ paymentStatus = AUTHORIZED THEN APPROVED
  ELSE IF paymentStatus = DECLINED THEN DECLINED
  ELSE IF paymentStatus = CANCELED THEN CANCELLED
  ELSE IF paymentStatus = REFUNDED \/ paymentStatus = PARTIALLY_REFUNDED
    THEN REFUNDED
  ELSE PENDING

\* the status rules of transformPaymentToTransaction
mapStatus(paymentStatus) ==
  IF Falsy(paymentStatus) THEN PENDING
  ELSE IF paymentStatus = APPROVED \/ paymentStatus = AUTHORIZED THEN APPROVED
  ELSE IF paymentStatus = DECLINED \/ paymentStatus = CANCELED THEN DECLINED
  ELSE IF paymentStatus = REFUNDED \/ paymentStatus = PARTIALLY_REFUNDED
    THEN REFUNDED
  ELSE IF paymentStatus = PENDING \/ paymentStatus = PENDING_MERCHANT
    THEN PENDING
  ELSE PENDING

\* faulty variant of transformRefundToTransaction: the order's currency is
\* looked at before the refund's own
transformRefundOrderCurrencyFirst(refund, order, now) ==
  [id |-> OrElse(refund._id, RefPrefix \o Digits(now)),
   amount |-> parseFloat(OrElse(Opt(refund.refunded, "amount"), ZeroText)),
   currency |-> OrElse(Opt(order, "currency"),
                       OrElse(Opt(refund.refunded, "currency"), EUR)),
   status |-> REFUNDED,
   paymentMethod |-> Refund,
   customerName |-> getCustomerNameFromOrder(order),
   customerEmail |-> OrElse(Opt(OptObj(order, "buyerInfo"), "email"),
                            CustomerExampleCom),
   createdDate |-> IF refund._createdDate = NoDate THEN now
                   ELSE refund._createdDate[1],
   description |-> OrderHash
                   \o ToText(OrElse(Opt(order, "number"), Opt(order, "_id")))
                   \o RefundSuffix,
   provider |-> Refund,
   providerTransactionId |-> refund.providerRefundId,
   type |-> REFUND]

\* transformPaymentToTransaction(payment, order) at clock reading now, for
\* a payment that is an object (payment.amount on null throws: LoopThrows)
transformPaymentToTransaction(payment, order, now) ==
  LET details == payment.regularPaymentDetails
  IN  [id |-> OrElse(payment._id, TxnPrefix \o Digits(now)),
       amount |-> parseFloat(OrElse(Opt(payment.amount, "amount"), ZeroText)),
       currency |-> OrElse(Opt(payment.amount, "currency"),
                           OrElse(Opt(order, "currency"), EUR)),
       status |-> mapStatus(Opt(details, "status")),
       paymentMethod |-> OrElse(Opt(details, "paymentMethod"), Unknown),
       customerName |-> getCustomerNameFromOrder(order),
       customerEmail |-> OrElse(Opt(OptObj(order, "buyerInfo"), "email"),
                                CustomerExampleCom),
       createdDate |-> IF payment._createdDate = NoDate THEN now
                       ELSE payment._createdDate[1],
       description |-> OrderHash
                       \o ToText(OrElse(Opt(order, "number"), Opt(order, "_id")))
                       \o PaymentSuffix,
       provider |-> Opt(details, "paymentMethod"),
       providerTransactionId |-> Opt(details, "providerTransactionId"),
       type |-> PAYMENT]

\* transformRefundToTransaction(refund, order) at clock reading now
transformRefundToTransaction(refund, order, now) ==
  [id |-> OrElse(refund._id, RefPrefix \o Digits(now)),
   amount |-> parseFloat(OrElse(Opt(refund.refunded, "amount"), ZeroText)),
   currency |-> OrElse(Opt(refund.refunded, "currency"),
                       OrElse(Opt(order, "currency"), EUR)),
   status |-> REFUNDED,
   paymentMethod |-> Refund,
   customerName |-> getCustomerNameFromOrder(order),
   customerEmail |-> OrElse(Opt(OptObj(order, "buyerInfo"), "email"),
                            CustomerExampleCom),
   createdDate |-> IF refund._createdDate = NoDate THEN now
                   ELSE refund._createdDate[1],
   description |-> OrderHash
                   \o ToText(OrElse(Opt(order, "number"), Opt(order, "_id")))
                   \o RefundSuffix,
   provider |-> Refund,
   providerTransactionId |-> refund.providerRefundId,
   type |-> REFUND]

(***************************************************************************)
(* Metrics Aggregator.                                                     *)
(***************************************************************************)
\* the metrics object before the pass
InitialMetrics(transactions) ==
  [totalApproved |-> Num(0),
   totalPending |-> Num(0),
   totalDeclined |-> Num(0),
   totalRefunded |-> Num(0),
   totalTransactions |-> Len(transactions),
   totalRevenue |-> Num(0)]

\* faulty variant of AddToBucket: CANCELLED summed into the declined bucket
AddToBucketCancelledAsDeclined(metrics, transaction) ==
  LET amount == transaction.amount
  IN  IF transaction.status = APPROVED
        THEN [metrics EXCEPT !.totalApproved = FAdd(@, amount),
                             !.totalRevenue = FAdd(@, amount)]
      ELSE IF transaction.status = PENDING
        THEN [metrics EXCEPT !.totalPending = FAdd(@, amount)]
      ELSE IF transaction.status = DECLINED \/ transaction.status = CANCELLED
        THEN [metrics EXCEPT !.totalDeclined = FAdd(@, amount)]
      ELSE IF transaction.status = REFUNDED
        THEN [metrics EXCEPT !.totalRefunded = FAdd(@, amount),
                             !.totalRevenue = FSub(@, amount)]
      ELSE metrics

\* the body of the forEach callback: the switch on transaction.status
AddToBucket(metrics, transaction) ==
  LET amount == transaction.amount
  IN  IF transaction.status = APPROVED
        THEN [metrics EXCEPT !.totalApproved = FAdd(@, amount),
                             !.totalRevenue = FAdd(@, amount)]
      ELSE IF transaction.status = PENDING
        THEN [metrics EXCEPT !.totalPending = FAdd(@, amount)]
      ELSE IF transaction.status = DECLINED
        THEN [metrics EXCEPT !.totalDeclined = FAdd(@, amount)]
      ELSE IF transaction.status = REFUNDED
        THEN [metrics EXCEPT !.totalRefunded = FAdd(@, amount),
                             !.totalRevenue = FSub(@, amount)]
      ELSE metrics

\* transactions.forEach(...) from element i on
RECURSIVE ForEachFrom(_, _, _)
ForEachFrom(metrics, transactions, i) ==
  IF i > Len(transactions) THEN metrics
  ELSE ForEachFrom(AddToBucket(metrics, transactions[i]), transactions, i + 1)

calculateMetrics(transactions) ==
  ForEachFrom(InitialMetrics(transactions), transactions, 1)

(***************************************************************************)
(* Filter Engine.  filters is null (the argument is absent) or             *)
(* [status, searchQuery, dateRange]: status and searchQuery a string or    *)
(* undefined, dateRange NoRange or RangeOf(days).                          *)
(***************************************************************************)
NoRange == <<>>

RangeOf(days) == <<days>>

\* no field supplied: filters = {}
EmptyFilters ==
  [status |-> undefined, searchQuery |-> undefined, dateRange |-> NoRange]

\* faulty variant of StatusMatches: the comparison keeps the letter case
StatusMatchesCaseSensitive(transaction, filters) ==
  transaction.status = filters.status

\* the callback of the status filter
StatusMatches(transaction, filters) ==
  toLowerCase(transaction.status) = toLowerCase(filters.status)

\* field?.toLowerCase().includes(query), undefined counting as false
FieldIncludes(field, query) ==
  field # undefined /\ includes(toLowerCase(field), query)

\* faulty variant of SearchMatches: the query is not lower-cased
SearchMatchesQueryAsTyped(transaction, filters) ==
  LET query == filters.searchQuery
  IN  \/ FieldIncludes(transaction.customerName, query)
      \/ FieldIncludes(transaction.customerEmail, query)
      \/ includes(toLowerCase(transaction.id), query)
      \/ FieldIncludes(transaction.description, query)

\* the callback of the search filter
SearchMatches(transaction, filters) ==
  LET query == toLowerCase(filters.searchQuery)
  IN  \/ FieldIncludes(transaction.customerName, query)
      \/ FieldIncludes(transaction.customerEmail, query)
      \/ includes(toLowerCase(transaction.id), query)
      \/ FieldIncludes(transaction.description, query)

\* cutoffDate: now moved back by filters.dateRange days
CutoffDate(filters, now) == now - filters.dateRange[1] * TicksPerDay

\* the callback of the date-range filter
DateMatches(transaction, filters, now) ==
  transaction.createdDate >= CutoffDate(filters, now)

\* the three guarded filter steps, each from the list the step before left
FilterByStatus(filtered, filters) ==
  IF ~Falsy(filters.status) /\ filters.status # all
    THEN SelectSeq(filtered, LAMBDA t : StatusMatches(t, filters))
    ELSE filtered

FilterBySearch(filtered, filters) ==
  IF ~Falsy(filters.searchQuery)
    THEN SelectSeq(filtered, LAMBDA t : SearchMatches(t, filters))
    ELSE filtered

FilterByDate(filtered, filters, now) ==
  IF filters.dateRange # NoRange /\ filters.dateRange[1] # 0
    THEN SelectSeq(filtered, LAMBDA t : DateMatches(t, filters, now))
    ELSE filtered

\* the array object applyFilters returns: the input itself on the early
\* return, otherwise the spread copy or a list Array.filter built from it
ReturnedArray(filters) == IF filters = null THEN "input" ELSE "copy"

\* faulty variant of InputAfter: the steps filter the input array in place
InputAfterInPlace(transactions, filters, now) ==
  IF filters = null THEN transactions
  ELSE FilterByDate(
         FilterBySearch(FilterByStatus(transactions, filters), filters),
         filters, now)

\* what the input array holds when applyFilters returns: the spread reads
\* it, Array.filter builds new arrays, no statement writes to it
InputAfter(transactions, filters, now) == transactions

\* faulty variant of applyFilters: the search step filters the input list
\* again and so drops what the status step did
applyFiltersSearchFromInput(transactions, filters, now) ==
  IF filters = null THEN transactions
  ELSE FilterByDate(FilterBySearch(transactions, filters), filters, now)

applyFilters(transactions, filters, now) ==
  IF filters = null THEN transactions
  ELSE FilterByDate(
         FilterBySearch(FilterByStatus(transactions, filters), filters),
         filters, now)

(***************************************************************************)
(* State.                                                                  *)
(***************************************************************************)
VARIABLES
  now,            \* the clock: the instant Date.now() and new Date() read
  mPc,            \* calculateMetrics call: "off", "ready", "done"
  mTransactions,  \* its argument
  mMetrics,       \* its return value (null before it returns)
  fPc,            \* applyFilters call: "off", "ready", "done", "popped"
  fTransactions,  \* its transactions argument
  fFilters,       \* its filters argument
  fResult,        \* its return value
  fReturned,      \* the array object returned: "input", "copy" ("none" before)
  fInput,         \* what the caller's input array holds now
  tPc,            \* transformer call: "off", "ready", "done"
  tKind,          \* "payment" or "refund"
  tRecord,        \* the provider record
  tOrder,         \* the parent order (null: none found)
  tResult,        \* the Transaction returned (null before it returns)
  call,           \* the fetchTransactions / refreshTransactions invocation
  ui,             \* the dashboard's React state
  shown,          \* what the last committed render shows
  inv,            \* the load and refresh invocations of the dashboard
  http            \* the request the backend endpoint is handling

clockVars == <<now>>
metricsVars == <<mPc, mTransactions, mMetrics>>
filterVars == <<fPc, fTransactions, fFilters, fResult, fReturned, fInput>>
transformVars == <<tPc, tKind, tRecord, tOrder, tResult>>
fetchVars == <<call>>
dashVars == <<ui, shown, inv>>
httpVars == <<http>>
vars == <<now, mPc, mTransactions, mMetrics, fPc, fTransactions, fFilters,
          fResult, fReturned, fInput, tPc, tKind, tRecord, tOrder, tResult, call,
          ui, shown, inv, http>>

\* the day the clock starts on (January 2025) and how far it is followed
StartDay == 22

MaxTicks == 2

StartInstant == StartDay * TicksPerDay

\* all sequences over S of length at most n
SeqUpTo(S, n) == UNION {[1..k -> S] : k \in 0..n}

MetricsOff == mPc = "off" /\ mTransactions = <<>> /\ mMetrics = null

FilterOff ==
  /\ fPc = "off"
  /\ fTransactions = <<>>
  /\ fFilters = null
  /\ fResult = <<>>
  /\ fReturned = "none"
  /\ fInput = <<>>

TransformOff ==
  /\ tPc = "off"
  /\ tKind = "payment"
  /\ tRecord = null
  /\ tOrder = null
  /\ tResult = null

\* the dashboard's state after useState: no transactions, zero metrics,
\* status filter 'all', empty search, 30 days, not loading, demo badge
InitialUi ==
  [transactions |-> <<>>,
   filteredTransactions |-> <<>>,
   metrics |-> [totalApproved |-> Num(0),
                totalPending |-> Num(0),
                totalDeclined |-> Num(0),
                totalRefunded |-> Num(0),
                totalTransactions |-> 0,
                totalRevenue |-> Num(0)],
   searchValue |-> <<>>,
   filterValue |-> all,
   timePeriod |-> <<"3","0">>,
   loading |-> FALSE,
   usingMockData |-> TRUE,
   toast |-> "none",
   effectPending |-> FALSE,
   effectRanAt |-> 0]

\* nothing is rendered yet
NotShown == [mounted |-> FALSE, disabled |-> FALSE]

DashOff == ui = InitialUi /\ shown = NotShown /\ inv = <<>>

\* no request is being handled
IdleRequest ==
  [pc |-> "idle",
   method |-> "GET",
   status |-> undefined,
   orders |-> <<>>,
   outcome |-> "none",
   transactionData |-> <<>>,
   stageThrew |-> FALSE,
   response |-> null]

HttpOff == http = IdleRequest

\* time passes
Tick ==
  /\ now < StartInstant + MaxTicks
  /\ now' = now + 1

(***************************************************************************)
(* calculateMetrics applied to generated collections and to the synthetic  *)
(* dataset.                                                                *)
(***************************************************************************)
\* an amount whose sum with a small one needs rounding: 2^MantissaBits - 1
LargeUnits == Pow2(MantissaBits) - 1

MetricsAmounts == {Num(1), Num(2), Num(LargeUnits)}

MetricsTransaction(status, amount) ==
  [id |-> <<"t">>,
   amount |-> amount,
   currency |-> EUR,
   status |-> status,
   paymentMethod |-> Unknown,
   customerName |-> undefined,
   customerEmail |-> undefined,
   createdDate |-> StartInstant,
   description |-> undefined,
   provider |-> undefined,
   providerTransactionId |-> undefined,
   type |-> undefined]

MetricsTransactions ==
  {MetricsTransaction(s, a) : s \in CanonicalStatus, a \in MetricsAmounts}

MetricsInputs == SeqUpTo(MetricsTransactions, MaxTx) \cup {getMockTransactions}

CalculateMetrics ==
  /\ mPc = "ready"
  /\ mMetrics' = calculateMetrics(mTransactions)
  /\ mPc' = "done"
  /\ UNCHANGED <<mTransactions, clockVars, filterVars, transformVars, fetchVars>>
  /\ UNCHANGED <<dashVars, httpVars>>

\* the caller drops the result and may call again
DropMetrics ==
  /\ mPc = "done"
  /\ mMetrics' = null
  /\ mPc' = "ready"
  /\ UNCHANGED <<mTransactions, clockVars, filterVars, transformVars, fetchVars>>
  /\ UNCHANGED <<dashVars, httpVars>>

IdleCall ==
  [pc |-> "idle",
   method |-> "fetchTransactions",
   filters |-> null,
   orders |-> <<>>,
   listed |-> NoList,
   failure |-> "none",
   settled |-> "pending",
   settledAt |-> 0,
   data |-> <<>>,
   usingMockData |-> FALSE]

FetchOff == call = IdleCall

InitMetrics ==
  /\ now = StartInstant
  /\ mPc = "ready"
  /\ mTransactions \in MetricsInputs
  /\ mMetrics = null
  /\ FilterOff
  /\ TransformOff
  /\ FetchOff
  /\ DashOff
  /\ HttpOff

NextMetrics == CalculateMetrics \/ DropMetrics

SpecMetrics == InitMetrics /\ [][NextMetrics]_vars
(***************************************************************************)
(* applyFilters applied to generated collections and filters.              *)
(***************************************************************************)
\* longest collection handed to applyFilters
MaxFilterTx == 2

\* a live payment of yesterday without customer, email or description
BareTransaction ==
  [id |-> <<"T","X","N","-","9">>,
   amount |-> Dec(12, 50),
   currency |-> EUR,
   status |-> PENDING,
   paymentMethod |-> Unknown,
   customerName |-> undefined,
   customerEmail |-> undefined,
   createdDate |-> StartInstant - TicksPerDay,
   description |-> undefined,
   provider |-> undefined,
   providerTransactionId |-> undefined,
   type |-> PAYMENT]

\* a CANCELLED transaction created seven days before the clock starts
CancelledTransaction ==
  [id |-> <<"a","b">>,
   amount |-> Dec(3, 0),
   currency |-> EUR,
   status |-> CANCELLED,
   paymentMethod |-> Unknown,
   customerName |-> <<"J","O">>,
   customerEmail |-> undefined,
   createdDate |-> StartInstant - 7 * TicksPerDay,
   description |-> <<"T","x","n">>,
   provider |-> undefined,
   providerTransactionId |-> undefined,
   type |-> PAYMENT]

FilterTransactions ==
  {getMockTransactions[1], getMockTransactions[5],
   BareTransaction, CancelledTransaction}

\* spellings handed in as filters.status and filters.searchQuery
ApprovedLower == <<"a","p","p","r","o","v","e","d">>

ApprovedMixed == <<"A","p","p","r","o","v","e","d">>

AllUpper == <<"A","L","L">>

RefundedMixed == <<"R","e","f","u","n","d","e","d">>

CancelledLower == <<"c","a","n","c","e","l","l","e","d">>

QueryJohn == <<"j","o","h","n">>

QueryJohnUpper == <<"J","O","H","N">>

QueryTxn == <<"t","x","n">>

QueryRefund == <<"r","e","f","u","n","d">>

QueryNoMatch == <<"z","z">>

ApprovedSpellings == {ApprovedLower, ApprovedMixed, APPROVED}

FilterStatuses ==
  {undefined, <<>>, all, AllUpper, RefundedMixed, CancelledLower}
    \cup ApprovedSpellings

FilterQueries ==
  {undefined, <<>>, QueryJohn, QueryJohnUpper, QueryTxn, QueryRefund,
   QueryNoMatch}

FilterRanges == {NoRange, RangeOf(0), RangeOf(7)}

FilterInputs ==
  {null} \cup [status : FilterStatuses, searchQuery : FilterQueries,
               dateRange : FilterRanges]

ApplyFilters ==
  /\ fPc = "ready"
  /\ fResult' = applyFilters(fTransactions, fFilters, now)
  /\ fReturned' = ReturnedArray(fFilters)
  /\ fInput' = InputAfter(fInput, fFilters, now)
  /\ fPc' = "done"
  /\ UNCHANGED <<fTransactions, fFilters, clockVars, metricsVars,
                 transformVars, fetchVars>>
  /\ UNCHANGED <<dashVars, httpVars>>

\* the caller removes the last element of the returned array (pop); an
\* array that is the input array loses it too
PopReturned ==
  /\ fPc = "done"
  /\ fResult # <<>>
  /\ fResult' = SubSeq(fResult, 1, Len(fResult) - 1)
  /\ fInput' = IF fReturned = "input" THEN fResult' ELSE fInput
  /\ fPc' = "popped"
  /\ UNCHANGED <<fTransactions, fFilters, fReturned, clockVars,
                 metricsVars, transformVars, fetchVars>>
  /\ UNCHANGED <<dashVars, httpVars>>

\* the caller drops the result and may call again with its input array
DropFiltered ==
  /\ fPc \in {"done", "popped"}
  /\ fResult' = <<>>
  /\ fReturned' = "none"
  /\ fTransactions' = fInput
  /\ fPc' = "ready"
  /\ UNCHANGED <<fInput, fFilters, clockVars, metricsVars,
                 transformVars, fetchVars>>
  /\ UNCHANGED <<dashVars, httpVars>>

\* time passes between calls
TickFilter ==
  /\ fPc = "ready"
  /\ Tick
  /\ UNCHANGED <<filterVars, metricsVars, transformVars, fetchVars>>
  /\ UNCHANGED <<dashVars, httpVars>>

InitFilter ==
  /\ now = StartInstant
  /\ fPc = "ready"
  /\ fTransactions \in SeqUpTo(FilterTransactions, MaxFilterTx)
  /\ fFilters \in FilterInputs
  /\ fResult = <<>>
  /\ fReturned = "none"
  /\ fInput = fTransactions
  /\ MetricsOff
  /\ TransformOff
  /\ FetchOff
  /\ DashOff
  /\ HttpOff

NextFilter == ApplyFilters \/ PopReturned \/ DropFiltered \/ TickFilter

SpecFilter == InitFilter /\ [][NextFilter]_vars

(***************************************************************************)
(* Provider records the transformers and the orchestrator are run on.      *)
(***************************************************************************)
OrderFull ==
  [_id |-> <<"o","1">>,
   number |-> <<"1","0","0","1">>,
   currency |-> <<"U","S","D">>,
   buyerInfo |-> [firstName |-> <<"A","n","n">>, lastName |-> <<"L","e","e">>,
                  email |-> <<"a","n","n","@","x",".","i","o">>],
   contactDetails |-> [firstName |-> <<"B","o">>, lastName |-> <<"R","a","y">>]]

\* an order with a buyer but no billing contact, order number or currency
OrderBuyerOnly ==
  [_id |-> <<"o","2">>,
   number |-> undefined,
   currency |-> undefined,
   buyerInfo |-> [firstName |-> <<"A","n","n">>, lastName |-> <<"L","e","e">>,
                  email |-> undefined],
   contactDetails |-> [firstName |-> <<"B","o">>, lastName |-> undefined]]

\* an order with no field but its id
OrderBare ==
  [_id |-> <<"o","2">>,
   number |-> undefined,
   currency |-> undefined,
   buyerInfo |-> null,
   contactDetails |-> null]

\* provider statuses: the eight enumerated ones and others
ProviderStatuses ==
  {APPROVED, AUTHORIZED, DECLINED, CANCELED, REFUNDED, PARTIALLY_REFUNDED,
   PENDING, PENDING_MERCHANT,
   undefined, <<>>, ApprovedLower, ApprovedMixed, CANCELLED, <<"F","A","I","L","E","D">>}

AmountObjects ==
  {null,
   [amount |-> <<"1","2",".","5","0">>, currency |-> <<"G","B","P">>],
   [amount |-> <<"a","b","c">>, currency |-> undefined],
   [amount |-> <<"-","5">>, currency |-> <<>>],
   [amount |-> undefined, currency |-> undefined]}

DetailObjects ==
  {null} \cup [status : ProviderStatuses,
               paymentMethod : {undefined, <<"c","a","r","d">>},
               providerTransactionId : {undefined}]

CreatedDates == {NoDate, DateOf(StartInstant - 30 * TicksPerDay)}

PaymentInputs ==
  [_id : {undefined, <<"p","1">>},
   amount : AmountObjects,
   regularPaymentDetails : DetailObjects,
   _createdDate : CreatedDates]

RefundInputs ==
  [_id : {undefined, <<"r","1">>},
   refunded : AmountObjects,
   _createdDate : CreatedDates,
   providerRefundId : {undefined, <<"r","r">>}]

OrderInputs == {null, OrderFull, OrderBuyerOnly, OrderBare}

(***************************************************************************)
(* The transformers applied to generated records.                          *)
(***************************************************************************)
TransformPayment ==
  /\ tPc = "ready"
  /\ tKind = "payment"
  /\ tResult' = transformPaymentToTransaction(tRecord, tOrder, now)
  /\ tPc' = "done"
  /\ UNCHANGED <<tKind, tRecord, tOrder, clockVars, metricsVars, filterVars,
                 fetchVars>>
  /\ UNCHANGED <<dashVars, httpVars>>

TransformRefund ==
  /\ tPc = "ready"
  /\ tKind = "refund"
  /\ tResult' = transformRefundToTransaction(tRecord, tOrder, now)
  /\ tPc' = "done"
  /\ UNCHANGED <<tKind, tRecord, tOrder, clockVars, metricsVars, filterVars,
                 fetchVars>>
  /\ UNCHANGED <<dashVars, httpVars>>

\* the caller drops the result and may call again
DropTransformed ==
  /\ tPc = "done"
  /\ tResult' = null
  /\ tPc' = "ready"
  /\ UNCHANGED <<tKind, tRecord, tOrder, clockVars, metricsVars, filterVars,
                 fetchVars>>
  /\ UNCHANGED <<dashVars, httpVars>>

\* time passes between calls
TickTransform ==
  /\ tPc = "ready"
  /\ Tick
  /\ UNCHANGED <<transformVars, metricsVars, filterVars, fetchVars>>
  /\ UNCHANGED <<dashVars, httpVars>>

InitTransform ==
  /\ now = StartInstant
  /\ tPc = "ready"
  /\ \/ tKind = "payment" /\ tRecord \in PaymentInputs
     \/ tKind = "refund" /\ tRecord \in RefundInputs
  /\ tOrder \in OrderInputs
  /\ tResult = null
  /\ MetricsOff
  /\ FilterOff
  /\ FetchOff
  /\ DashOff
  /\ HttpOff

NextTransform ==
  TransformPayment \/ TransformRefund \/ DropTransformed \/ TickTransform

SpecTransform == InitTransform /\ [][NextTransform]_vars

(***************************************************************************)
(* Fetch Orchestrator: one invocation of fetchTransactions or              *)
(* refreshTransactions, a step per awaited provider call.                  *)
(*   call.pc: "idle", "import", "searchOrders", "listTransactions",        *)
(*            "settled"                                                    *)
(*   call.failure: the step that threw ("none": no step did)               *)
(*   call.listed: the orderTransactions the provider answered with         *)
(*   call.settled: "pending", "resolved" or "rejected" (the promise)       *)
(***************************************************************************)
\* the days refreshTransactions asks for
RefreshDays == 7

\* faulty variant of CatchAndFallBack: the outer catch rethrows
CatchAndRethrow(c) ==
  [c EXCEPT !.pc = "settled", !.settled = "rejected"]

\* the outer catch of fetchTransactions: log and return the mock data
CatchAndFallBack(c) ==
  [c EXCEPT !.pc = "settled",
            !.settled = "resolved",
            !.data = getMockTransactions,
            !.usingMockData = TRUE]

\* the catch of refreshTransactions around its call of fetchTransactions
RefreshCatch(c) ==
  IF c.method = "refreshTransactions" /\ c.settled = "rejected"
    THEN [c EXCEPT !.settled = "resolved",
                   !.data = getMockTransactions,
                   !.usingMockData = TRUE]
    ELSE c

\* a step of the live path throws: the inner catches rethrow, the outer
\* catch handles it
Throw(c, step, clock) ==
  RefreshCatch(CatchAndFallBack([c EXCEPT !.failure = step,
                                          !.settledAt = clock]))

\* ordersResult.orders.find(o => o._id === orderTx.orderId)
RECURSIVE FindOrder(_, _, _)
FindOrder(orders, orderId, i) ==
  IF i > Len(orders) THEN null
  ELSE IF orders[i]._id = orderId THEN orders[i]
  ELSE FindOrder(orders, orderId, i + 1)

\* the status test before transactionData.push(txData)
PassesStatusFilter(txData, filters) ==
  \/ Falsy(Opt(filters, "status"))
  \/ filters.status = all
  \/ toLowerCase(txData.status) = toLowerCase(filters.status)

\* the transformed records of one list that pass the status test, in order
RECURSIVE TransformList(_, _, _, _, _, _)
TransformList(kind, records, order, filters, clock, i) ==
  IF ~records.present \/ i > Len(records.items) THEN <<>>
  ELSE LET txData == IF kind = "payment"
                       THEN transformPaymentToTransaction(records.items[i],
                                                          order, clock)
                       ELSE transformRefundToTransaction(records.items[i],
                                                         order, clock)
           rest == TransformList(kind, records, order, filters, clock, i + 1)
       IN  IF PassesStatusFilter(txData, filters) THEN <<txData>> \o rest
           ELSE rest

\* the loop over transactionsResult.orderTransactions from entry i on
RECURSIVE TransformAll(_, _, _, _, _)
TransformAll(orderTransactions, orders, filters, clock, i) ==
  IF ~orderTransactions.present \/ i > Len(orderTransactions.items) THEN <<>>
  ELSE LET orderTx == orderTransactions.items[i]
           order == FindOrder(orders, orderTx.orderId, 1)
       IN  TransformList("payment", orderTx.payments, order, filters, clock, 1)
           \o TransformList("refund", orderTx.refunds, order, filters, clock, 1)
           \o TransformAll(orderTransactions, orders, filters, clock, i + 1)

\* a null record in a list: reading its amount or summary throws a TypeError
HoldsNull(records) ==
  records.present /\ \E i \in 1..Len(records.items) : records.items[i] = null

\* faulty variant of LoopThrows: the amount object is read without ?., so a
\* payment without one throws as well
LoopThrowsOnMissingAmount(orderTransactions) ==
  /\ orderTransactions.present
  /\ \E i \in 1..Len(orderTransactions.items) :
       \/ HoldsNull(orderTransactions.items[i].payments)
       \/ HoldsNull(orderTransactions.items[i].refunds)
       \/ \E k \in 1..Len(orderTransactions.items[i].payments.items) :
            orderTransactions.items[i].payments.items[k].amount = null

\* the loop throws when it meets a null record
LoopThrows(orderTransactions) ==
  /\ orderTransactions.present
  /\ \E i \in 1..Len(orderTransactions.items) :
       \/ HoldsNull(orderTransactions.items[i].payments)
       \/ HoldsNull(orderTransactions.items[i].refunds)

\* fetchTransactions(filters) is called
CallFetchTransactions(filters) ==
  /\ call.pc = "idle"
  /\ call' = [IdleCall EXCEPT !.pc = "import",
                              !.method = "fetchTransactions",
                              !.filters = filters]
  /\ UNCHANGED <<clockVars, metricsVars, filterVars, transformVars>>
  /\ UNCHANGED <<dashVars, httpVars>>

\* refreshTransactions() is called: fetchTransactions({ dateRange: 7 })
CallRefreshTransactions ==
  /\ call.pc = "idle"
  /\ call' = [IdleCall EXCEPT
                !.pc = "import",
                !.method = "refreshTransactions",
                !.filters = [EmptyFilters EXCEPT
                               !.dateRange = RangeOf(RefreshDays)]]
  /\ UNCHANGED <<clockVars, metricsVars, filterVars, transformVars>>
  /\ UNCHANGED <<dashVars, httpVars>>

\* await import('@wix/ecom') resolves
ImportResolves ==
  /\ call.pc = "import"
  /\ call' = [call EXCEPT !.pc = "searchOrders"]
  /\ UNCHANGED <<clockVars, metricsVars, filterVars, transformVars>>
  /\ UNCHANGED <<dashVars, httpVars>>

\* await import('@wix/ecom') rejects
ImportRejects ==
  /\ call.pc = "import"
  /\ call' = Throw(call, "import", now)
  /\ UNCHANGED <<clockVars, metricsVars, filterVars, transformVars>>
  /\ UNCHANGED <<dashVars, httpVars>>

\* orders.searchOrders resolves with ordersResult.orders = orders
SearchOrdersResolves(orders) ==
  /\ call.pc = "searchOrders"
  /\ call' = IF orders.present /\ Len(orders.items) > 0
               THEN [call EXCEPT !.pc = "listTransactions",
                                 !.orders = orders.items]
               ELSE Throw(call, "noOrders", now)
  /\ UNCHANGED <<clockVars, metricsVars, filterVars, transformVars>>
  /\ UNCHANGED <<dashVars, httpVars>>

\* orders.searchOrders rejects
SearchOrdersRejects ==
  /\ call.pc = "searchOrders"
  /\ call' = Throw(call, "searchOrders", now)
  /\ UNCHANGED <<clockVars, metricsVars, filterVars, transformVars>>
  /\ UNCHANGED <<dashVars, httpVars>>

\* listTransactionsForMultipleOrders resolves with orderTransactions
ListTransactionsResolves(orderTransactions) ==
  /\ call.pc = "listTransactions"
  /\ call' =
       IF LoopThrows(orderTransactions)
         THEN Throw([call EXCEPT !.listed = orderTransactions], "transform",
                    now)
         ELSE [call EXCEPT
                 !.pc = "settled",
                 !.listed = orderTransactions,
                 !.settled = "resolved",
                 !.settledAt = now,
                 !.data = TransformAll(orderTransactions, call.orders,
                                       call.filters, now, 1),
                 !.usingMockData = FALSE]
  /\ UNCHANGED <<clockVars, metricsVars, filterVars, transformVars>>
  /\ UNCHANGED <<dashVars, httpVars>>

\* listTransactionsForMultipleOrders rejects
ListTransactionsRejects ==
  /\ call.pc = "listTransactions"
  /\ call' = Throw(call, "listTransactions", now)
  /\ UNCHANGED <<clockVars, metricsVars, filterVars, transformVars>>
  /\ UNCHANGED <<dashVars, httpVars>>

\* the caller takes the settled promise; the service can be called again
TakeResult ==
  /\ call.pc = "settled"
  /\ call' = IdleCall
  /\ UNCHANGED <<clockVars, metricsVars, filterVars, transformVars>>
  /\ UNCHANGED <<dashVars, httpVars>>

\* time passes between calls
TickFetch ==
  /\ call.pc = "idle"
  /\ Tick
  /\ UNCHANGED <<fetchVars, metricsVars, filterVars, transformVars>>
  /\ UNCHANGED <<dashVars, httpVars>>

(***************************************************************************)
(* What the provider answers with.                                         *)
(***************************************************************************)
\* most orders of one answer of searchOrders
MaxOrders == 1

\* most payment and refund records of one answer of the listing
MaxRecords == 2

PaymentRecent ==
  [_id |-> <<"p","1">>,
   amount |-> [amount |-> <<"1","2",".","5","0">>, currency |-> <<"G","B","P">>],
   regularPaymentDetails |-> [status |-> APPROVED, paymentMethod |-> <<"c","a","r","d">>,
                              providerTransactionId |-> <<"x","1">>],
   _createdDate |-> DateOf(StartInstant - TicksPerDay)]

PaymentOld ==
  [_id |-> <<"p","2">>,
   amount |-> [amount |-> <<"7">>, currency |-> undefined],
   regularPaymentDetails |-> [status |-> CANCELED, paymentMethod |-> undefined,
                              providerTransactionId |-> undefined],
   _createdDate |-> DateOf(StartInstant - 30 * TicksPerDay)]

PaymentBare ==
  [_id |-> undefined,
   amount |-> null,
   regularPaymentDetails |-> null,
   _createdDate |-> NoDate]

RefundRecent ==
  [_id |-> <<"r","1">>,
   refunded |-> [amount |-> <<"5",".","2","5">>, currency |-> undefined],
   _createdDate |-> DateOf(StartInstant - TicksPerDay),
   providerRefundId |-> <<"r","r">>]

RefundBare ==
  [_id |-> undefined,
   refunded |-> null,
   _createdDate |-> NoDate,
   providerRefundId |-> undefined]

\* the records of an answer, in the order the provider lists them
ListedRecords ==
  [kind : {"payment"}, rec : {PaymentRecent, PaymentOld, PaymentBare, null}]
    \cup [kind : {"refund"}, rec : {RefundRecent, RefundBare}]

RECURSIVE RecordsOf(_, _)
RecordsOf(entries, kind) ==
  IF entries = <<>> THEN <<>>
  ELSE IF entries[1].kind = kind
    THEN <<entries[1].rec>> \o RecordsOf(Tail(entries), kind)
  ELSE RecordsOf(Tail(entries), kind)

\* one entry of orderTransactions; a list without records is [] or absent
OrderTxOf(orderId, entries, absent) ==
  LET Listed(kind) ==
        IF RecordsOf(entries, kind) = <<>> /\ absent THEN NoList
        ELSE ListOf(RecordsOf(entries, kind))
  IN  [orderId |-> orderId,
       payments |-> Listed("payment"),
       refunds |-> Listed("refund")]

ListedOrderIds == {OrderFull._id, OrderBare._id}

\* the answers of the listing: no orderTransactions, none, one entry, or two
\* entries sharing the records between them
Listings ==
  {NoList, ListOf(<<>>)}
    \cup {ListOf(<<OrderTxOf(id, es, ab)>>) :
            id \in ListedOrderIds,
            es \in SeqUpTo(ListedRecords, MaxRecords),
            ab \in BOOLEAN}
    \cup {ListOf(<<OrderTxOf(OrderFull._id, SubSeq(es, 1, 1), FALSE),
                   OrderTxOf(OrderBare._id, SubSeq(es, 2, Len(es)), FALSE)>>) :
            es \in SeqUpTo(ListedRecords, MaxRecords) \ {<<>>}}

OrderAnswers ==
  {NoList} \cup {ListOf(os) : os \in SeqUpTo({OrderFull, OrderBare}, MaxOrders)}

FetchFilters ==
  {null,
   EmptyFilters,
   [EmptyFilters EXCEPT !.status = all],
   [EmptyFilters EXCEPT !.status = ApprovedLower],
   [EmptyFilters EXCEPT !.status = RefundedMixed]}

InitFetch ==
  /\ now = StartInstant
  /\ call = IdleCall
  /\ MetricsOff
  /\ FilterOff
  /\ TransformOff
  /\ DashOff
  /\ HttpOff

NextFetch ==
  \/ \E filters \in FetchFilters : CallFetchTransactions(filters)
  \/ CallRefreshTransactions
  \/ ImportResolves
  \/ ImportRejects
  \/ \E orders \in OrderAnswers : SearchOrdersResolves(orders)
  \/ SearchOrdersRejects
  \/ \E orderTransactions \in Listings :
       ListTransactionsResolves(orderTransactions)
  \/ ListTransactionsRejects
  \/ TakeResult
  \/ TickFetch

Spec == InitFetch /\ [][NextFetch]_vars

(***************************************************************************)
(* The dashboard page.  ui is the React state of TransactionsDashboard     *)
(* (effectPending: a dependency of the filter effect was set since the     *)
(* effect last ran, effectRanAt: the clock reading when it last ran),      *)
(* shown is what the last committed render shows, inv the invocations of   *)
(* loadTransactionData and handleRefreshData in the order they were        *)
(* started:                                                                *)
(*   [kind: "load" | "refresh", pc: "awaiting" | "done", result, order]    *)
(* with order the rank of the completion (0 while awaiting).               *)
(***************************************************************************)
\* most invocations started
MaxInvocations == 2

\* parseInt of a string of decimal digits
parseInt(s) == DigitsValue(s, 1, DigitRun(s, 1))

\* faulty variant of DashboardFilters: the search text is left out
DashboardFiltersWithoutSearch(state) ==
  [status |-> IF state.filterValue # all THEN state.filterValue ELSE undefined,
   searchQuery |-> undefined,
   dateRange |-> RangeOf(parseInt(state.timePeriod))]

\* the filters object the dashboard's applyFilters builds
DashboardFilters(state) ==
  [status |-> IF state.filterValue # all THEN state.filterValue ELSE undefined,
   searchQuery |-> OrElse(state.searchValue, undefined),
   dateRange |-> RangeOf(parseInt(state.timePeriod))]

\* faulty variant of RunFilterEffect: the headline metrics are recomputed
\* over the filtered view
RunFilterEffectWithMetrics(state, clock) ==
  [state EXCEPT
     !.filteredTransactions =
        applyFilters(state.transactions, DashboardFilters(state), clock),
     !.metrics =
        calculateMetrics(
          applyFilters(state.transactions, DashboardFilters(state), clock)),
     !.effectPending = FALSE,
     !.effectRanAt = clock]

\* the dashboard's applyFilters: filter the transactions held, keep the list
RunFilterEffect(state, clock) ==
  [state EXCEPT
     !.filteredTransactions =
        applyFilters(state.transactions, DashboardFilters(state), clock),
     !.effectPending = FALSE,
     !.effectRanAt = clock]

\* what the service resolves with: the mock data, or the transformed
\* records of a listing for one order
MockAnswer == [data |-> getMockTransactions, usingMockData |-> TRUE]

LiveAnswer(entries, filters, clock) ==
  [data |-> TransformAll(ListOf(<<OrderTxOf(OrderFull._id, entries, FALSE)>>),
                         <<OrderFull>>, filters, clock, 1),
   usingMockData |-> FALSE]

DashboardListings ==
  {<<>>,
   <<[kind |-> "payment", rec |-> PaymentOld],
     [kind |-> "refund", rec |-> RefundRecent]>>}

\* fetchTransactions() for a load, fetchTransactions({ dateRange: 7 }) for a
\* refresh
InvocationFilters(kind) ==
  IF kind = "load" THEN null
  ELSE [EmptyFilters EXCEPT !.dateRange = RangeOf(RefreshDays)]

ServiceAnswers(kind, clock) ==
  {MockAnswer}
    \cup {LiveAnswer(entries, InvocationFilters(kind), clock) :
            entries \in DashboardListings}

\* the toast after a load or a refresh
ToastFor(kind, result) ==
  IF kind = "load"
    THEN IF result.usingMockData THEN "loaded (demo data)" ELSE "loaded"
    ELSE IF result.usingMockData THEN "refreshed (demo data)" ELSE "refreshed"

\* faulty variant of Loaded: the result is appended to the transactions held
LoadedMerging(state, kind, result) ==
  [state EXCEPT
     !.transactions = state.transactions \o result.data,
     !.filteredTransactions = state.transactions \o result.data,
     !.metrics = calculateMetrics(result.data),
     !.usingMockData = result.usingMockData,
     !.toast = ToastFor(kind, result),
     !.loading = FALSE,
     !.effectPending = TRUE]

\* the handler after its await: metrics computed, the four states set, the
\* toast shown, loading cleared in finally
Loaded(state, kind, result) ==
  [state EXCEPT
     !.transactions = result.data,
     !.filteredTransactions = result.data,
     !.metrics = calculateMetrics(result.data),
     !.usingMockData = result.usingMockData,
     !.toast = ToastFor(kind, result),
     !.loading = FALSE,
     !.effectPending = TRUE]

Awaiting(kind) ==
  [kind |-> kind, pc |-> "awaiting", result |-> null, order |-> 0]

Completed == {i \in 1..Len(inv) : inv[i].pc = "done"}

\* the effects of the first render: loadTransactionData() up to its await,
\* then the filter effect
MountEffects ==
  /\ ~shown.mounted
  /\ inv' = Append(inv, Awaiting("load"))
  /\ ui' = RunFilterEffect([ui EXCEPT !.loading = TRUE], now)
  /\ shown' = [shown EXCEPT !.mounted = TRUE]
  /\ UNCHANGED <<clockVars, metricsVars, filterVars, transformVars, fetchVars,
                 httpVars>>

\* a render is committed: the Refresh button follows loading, the filter
\* effect runs when one of its dependencies was set
Render ==
  /\ shown.mounted
  /\ shown.disabled # ui.loading \/ ui.effectPending
  /\ shown' = [shown EXCEPT !.disabled = ui.loading]
  /\ ui' = IF ui.effectPending THEN RunFilterEffect(ui, now) ELSE ui
  /\ UNCHANGED <<inv, clockVars, metricsVars, filterVars, transformVars,
                 fetchVars, httpVars>>

\* a click on Refresh, which the committed render shows enabled:
\* handleRefreshData up to its await, rendered before the next event
ClickRefresh ==
  /\ shown.mounted
  /\ ~shown.disabled
  /\ Len(inv) < MaxInvocations
  /\ inv' = Append(inv, Awaiting("refresh"))
  /\ ui' = [ui EXCEPT !.loading = TRUE]
  /\ shown' = [shown EXCEPT !.disabled = TRUE]
  /\ UNCHANGED <<clockVars, metricsVars, filterVars, transformVars, fetchVars,
                 httpVars>>

\* the service call of invocation i resolves and the handler runs on
Complete(i, result) ==
  /\ inv[i].pc = "awaiting"
  /\ inv' = [inv EXCEPT ![i] = [@ EXCEPT !.pc = "done",
                                         !.result = result,
                                         !.order = Cardinality(Completed) + 1]]
  /\ ui' = Loaded(ui, inv[i].kind, result)
  /\ UNCHANGED <<shown, clockVars, metricsVars, filterVars, transformVars,
                 fetchVars, httpVars>>

\* the ids of the status options, the time period options, and search texts
StatusOptionIds == {all, ApprovedLower}

TimePeriodIds == {<<"7">>, <<"3","0">>}

SearchTexts == {<<>>, QueryJohn}

\* handleFilterChange: a status option is selected
SelectStatus(id) ==
  /\ shown.mounted
  /\ id # ui.filterValue
  /\ ui' = [ui EXCEPT !.filterValue = id, !.effectPending = TRUE]
  /\ UNCHANGED <<shown, inv, clockVars, metricsVars, filterVars, transformVars,
                 fetchVars, httpVars>>

\* handleTimePeriodChange: a time period option is selected
SelectTimePeriod(id) ==
  /\ shown.mounted
  /\ id # ui.timePeriod
  /\ ui' = [ui EXCEPT !.timePeriod = id, !.effectPending = TRUE]
  /\ UNCHANGED <<shown, inv, clockVars, metricsVars, filterVars, transformVars,
                 fetchVars, httpVars>>

\* onChange of the search box
ChangeSearch(text) ==
  /\ shown.mounted
  /\ text # ui.searchValue
  /\ ui' = [ui EXCEPT !.searchValue = text, !.effectPending = TRUE]
  /\ UNCHANGED <<shown, inv, clockVars, metricsVars, filterVars, transformVars,
                 fetchVars, httpVars>>

\* most ticks of the clock while the dashboard is open
MaxDashboardTicks == 1

\* time passes
TickDashboard ==
  /\ now < StartInstant + MaxDashboardTicks
  /\ Tick
  /\ UNCHANGED <<dashVars, metricsVars, filterVars, transformVars, fetchVars,
                 httpVars>>

InitDashboard ==
  /\ now = StartInstant
  /\ DashOff
  /\ HttpOff
  /\ MetricsOff
  /\ FilterOff
  /\ TransformOff
  /\ FetchOff

NextDashboard ==
  \/ MountEffects
  \/ Render
  \/ ClickRefresh
  \/ \E i \in 1..Len(inv) :
       \E result \in ServiceAnswers(inv[i].kind, now) : Complete(i, result)
  \/ \E id \in StatusOptionIds : SelectStatus(id)
  \/ \E id \in TimePeriodIds : SelectTimePeriod(id)
  \/ \E text \in SearchTexts : ChangeSearch(text)
  \/ TickDashboard

\* the dashboard with every pending render eventually committed
SpecDashboardRendering ==
  InitDashboard /\ [][NextDashboard]_vars /\ WF_vars(Render)

SpecDashboard == InitDashboard /\ [][NextDashboard]_vars

(***************************************************************************)
(* The backend endpoints GET and POST of transactions.web.ts, a step per   *)
(* awaited provider call.  The transformers, the mock data and the metrics *)
(* of that file are copies of the service's and share its definitions.     *)
(*   http.pc: "idle", "searchOrders", "listTransactions", "responded"      *)
(*   http.outcome: "live", or the step of the provider path that threw     *)
(*   http.transactionData: the handler's list when it builds the response  *)
(*   http.stageThrew: building the response threw                          *)
(***************************************************************************)
\* calculateTransactionMetrics
calculateTransactionMetrics(transactions) ==
  ForEachFrom(InitialMetrics(transactions), transactions, 1)

\* JSON.stringify of a number: NaN is written as null
JsonNumber(x) == IF x.nan THEN null ELSE x

JsonData(data) ==
  [i \in 1..Len(data) |-> [data[i] EXCEPT !.amount = JsonNumber(@)]]

JsonMetrics(metrics) ==
  [metrics EXCEPT !.totalApproved = JsonNumber(@),
                  !.totalPending = JsonNumber(@),
                  !.totalDeclined = JsonNumber(@),
                  !.totalRefunded = JsonNumber(@),
                  !.totalRevenue = JsonNumber(@)]

\* the response of the outer catch
ErrorResponse(method) ==
  [status |-> 500,
   body |-> [success |-> FALSE,
             error |-> IF method = "GET" THEN "Failed to fetch transactions"
                       ELSE "Failed to refresh transactions"]]

\* faulty variant of OkResponse: the metrics are those of the mock data
OkResponseMockMetrics(method, transactionData, usingMockData) ==
  [status |-> 200,
   body |-> IF method = "GET"
              THEN [success |-> TRUE,
                    data |-> JsonData(transactionData),
                    metrics |-> JsonMetrics(
                                  calculateTransactionMetrics(getMockTransactions)),
                    usingMockData |-> usingMockData]
              ELSE [success |-> TRUE,
                    data |-> JsonData(transactionData),
                    metrics |-> JsonMetrics(
                                  calculateTransactionMetrics(getMockTransactions)),
                    usingMockData |-> usingMockData,
                    message |-> IF usingMockData
                                  THEN "Transactions refreshed (mock data)"
                                  ELSE "Transactions refreshed from Wix Orders"]]

\* the response after the inner try: metrics over the list, the body
\* serialised, no status given (200)
OkResponse(method, transactionData, usingMockData) ==
  [status |-> 200,
   body |-> IF method = "GET"
              THEN [success |-> TRUE,
                    data |-> JsonData(transactionData),
                    metrics |-> JsonMetrics(
                                  calculateTransactionMetrics(transactionData)),
                    usingMockData |-> usingMockData]
              ELSE [success |-> TRUE,
                    data |-> JsonData(transactionData),
                    metrics |-> JsonMetrics(
                                  calculateTransactionMetrics(transactionData)),
                    usingMockData |-> usingMockData,
                    message |-> IF usingMockData
                                  THEN "Transactions refreshed (mock data)"
                                  ELSE "Transactions refreshed from Wix Orders"]]

\* the handler from the end of the inner try on; stageThrows: building the
\* response throws (JSON.stringify, new Response) and the outer catch answers
Respond(h, outcome, transactionData, usingMockData, stageThrows) ==
  [h EXCEPT !.pc = "responded",
            !.outcome = outcome,
            !.transactionData = transactionData,
            !.stageThrew = stageThrows,
            !.response = IF stageThrows THEN ErrorResponse(h.method)
                         ELSE OkResponse(h.method, transactionData,
                                         usingMockData)]

\* the inner catch: the mock data, usingMockData = true
HttpFallBack(h, step, stageThrows) ==
  Respond(h, step, getMockTransactions, TRUE, stageThrows)

\* the status test of GET before transactionData.push; POST has none
HttpFilters(h) ==
  IF h.method = "GET" THEN [EmptyFilters EXCEPT !.status = h.status] ELSE null

\* GET is called with the query parameter status (undefined: none)
ReceiveGet(status) ==
  /\ http.pc = "idle"
  /\ http' = [IdleRequest EXCEPT !.pc = "searchOrders", !.status = status]
  /\ UNCHANGED <<clockVars, metricsVars, filterVars, transformVars, fetchVars,
                 dashVars>>

ReceivePost ==
  /\ http.pc = "idle"
  /\ http' = [IdleRequest EXCEPT !.pc = "searchOrders", !.method = "POST"]
  /\ UNCHANGED <<clockVars, metricsVars, filterVars, transformVars, fetchVars,
                 dashVars>>

\* orders.searchOrders resolves
HttpSearchOrdersResolves(orders, stageThrows) ==
  /\ http.pc = "searchOrders"
  /\ http' = IF orders.present /\ Len(orders.items) > 0
               THEN [http EXCEPT !.pc = "listTransactions",
                                 !.orders = orders.items]
               ELSE HttpFallBack(http, "noOrders", stageThrows)
  /\ UNCHANGED <<clockVars, metricsVars, filterVars, transformVars, fetchVars,
                 dashVars>>

HttpSearchOrdersRejects(stageThrows) ==
  /\ http.pc = "searchOrders"
  /\ http' = HttpFallBack(http, "searchOrders", stageThrows)
  /\ UNCHANGED <<clockVars, metricsVars, filterVars, transformVars, fetchVars,
                 dashVars>>

\* listTransactionsForMultipleOrders resolves
HttpListTransactionsResolves(orderTransactions, stageThrows) ==
  /\ http.pc = "listTransactions"
  /\ http' = IF LoopThrows(orderTransactions)
               THEN HttpFallBack(http, "transform", stageThrows)
               ELSE Respond(http, "live",
                            TransformAll(orderTransactions, http.orders,
                                         HttpFilters(http), now, 1),
                            FALSE, stageThrows)
  /\ UNCHANGED <<clockVars, metricsVars, filterVars, transformVars, fetchVars,
                 dashVars>>

HttpListTransactionsRejects(stageThrows) ==
  /\ http.pc = "listTransactions"
  /\ http' = HttpFallBack(http, "listTransactions", stageThrows)
  /\ UNCHANGED <<clockVars, metricsVars, filterVars, transformVars, fetchVars,
                 dashVars>>

\* the response is sent; the endpoint takes the next request
TakeResponse ==
  /\ http.pc = "responded"
  /\ http' = IdleRequest
  /\ UNCHANGED <<clockVars, metricsVars, filterVars, transformVars, fetchVars,
                 dashVars>>

StatusParams == {undefined, all, ApprovedLower, RefundedMixed}

InitEndpoint ==
  /\ now = StartInstant
  /\ HttpOff
  /\ DashOff
  /\ MetricsOff
  /\ FilterOff
  /\ TransformOff
  /\ FetchOff

NextEndpoint ==
  \/ \E status \in StatusParams : ReceiveGet(status)
  \/ ReceivePost
  \/ \E orders \in OrderAnswers, stageThrows \in BOOLEAN :
       HttpSearchOrdersResolves(orders, stageThrows)
  \/ \E stageThrows \in BOOLEAN : HttpSearchOrdersRejects(stageThrows)
  \/ \E orderTransactions \in Listings, stageThrows \in BOOLEAN :
       HttpListTransactionsResolves(orderTransactions, stageThrows)
  \/ \E stageThrows \in BOOLEAN : HttpListTransactionsRejects(stageThrows)
  \/ TakeResponse

SpecEndpoint == InitEndpoint /\ [][NextEndpoint]_vars

(***************************************************************************)
(* Claims about fetchTransactions and refreshTransactions (Spec).          *)
(***************************************************************************)
\* C1: fetchTransactions never propagates a failure: whenever the import,
\* the order search, the transaction listing or a later step of the live
\* path throws, the promise resolves, with exactly the five-record
\* synthetic dataset and usingMockData = true; it is never rejected.
C1_FailureFallsBackToMockData ==
  call.pc = "settled" =>
    /\ call.settled = "resolved"
    /\ call.failure # "none" =>
         /\ call.data = getMockTransactions
         /\ Len(call.data) = 5
         /\ call.usingMockData = TRUE

\* the listing threw during a fetchTransactions call, which has settled
C1_Witness ==
  /\ call.pc = "settled"
  /\ call.method = "fetchTransactions"
  /\ call.failure = "listTransactions"

\* the list is absent or holds no record
NoRecords(records) == ~records.present \/ records.items = <<>>

\* the listing answered without a payment or refund record
EmptyListing(orderTransactions) ==
  \/ ~orderTransactions.present
  \/ \A i \in 1..Len(orderTransactions.items) :
       /\ NoRecords(orderTransactions.items[i].payments)
       /\ NoRecords(orderTransactions.items[i].refunds)

\* C2: whenever the provider yields an empty result at either step (the
\* order search returns no orders, or the listing returns no payment or
\* refund record for the returned orders) the call returns the synthetic
\* dataset with usingMockData = true; it never returns an empty data list
\* with usingMockData = false.
C2_EmptyResultFallsBackToMockData ==
  call.pc = "settled" =>
    /\ (\/ call.failure = "noOrders"
        \/ call.failure = "none" /\ EmptyListing(call.listed)) =>
         call.data = getMockTransactions /\ call.usingMockData = TRUE
    /\ ~(call.data = <<>> /\ call.usingMockData = FALSE)

\* C3: refreshTransactions is fetchTransactions constrained to the last 7
\* days: every transaction it returns has a createdDate on or after
\* (now - 7 days), so a provider record older than that is absent.
C3_RefreshReturnsLastSevenDays ==
  call.pc = "settled" /\ call.method = "refreshTransactions" =>
    \A i \in 1..Len(call.data) :
      call.data[i].createdDate >= call.settledAt - RefreshDays * TicksPerDay

(***************************************************************************)
(* Claims about the transformers (SpecTransform).                          *)
(***************************************************************************)
\* C4: the status of a transformed payment is decided case-sensitively by
\* the provider status: APPROVED or AUTHORIZED gives APPROVED; DECLINED or
\* CANCELED gives DECLINED; REFUNDED or PARTIALLY_REFUNDED gives REFUNDED;
\* PENDING, PENDING_MERCHANT and every other value (absent, empty,
\* 'approved') give PENDING; the result is never CANCELLED.
C4_StatusMapping ==
  tPc = "done" /\ tKind = "payment" =>
    LET given == Opt(tRecord.regularPaymentDetails, "status")
    IN  /\ given \in {APPROVED, AUTHORIZED} => tResult.status = APPROVED
        /\ given \in {DECLINED, CANCELED} => tResult.status = DECLINED
        /\ given \in {REFUNDED, PARTIALLY_REFUNDED} =>
             tResult.status = REFUNDED
        /\ given \notin {APPROVED, AUTHORIZED, DECLINED, CANCELED, REFUNDED,
                         PARTIALLY_REFUNDED} => tResult.status = PENDING
        /\ tResult.status # CANCELLED

\* a payment whose provider status is spelled 'approved' came out PENDING
C4_Witness ==
  /\ tPc = "done"
  /\ tKind = "payment"
  /\ Opt(tRecord.regularPaymentDetails, "status") = ApprovedLower
  /\ tResult.status = PENDING

(***************************************************************************)
(* Claims about calculateMetrics (SpecMetrics).                            *)
(***************************************************************************)
\* C5: for every collection, the metrics calculateMetrics returns satisfy
\* totalRevenue = totalApproved - totalRefunded.
C5_RevenueIsApprovedMinusRefunded ==
  mPc = "done" =>
    StrictEq(mMetrics.totalRevenue,
             FSub(mMetrics.totalApproved, mMetrics.totalRefunded))

\* the amounts of a collection added up from left to right
RECURSIVE SumAmounts(_)
SumAmounts(transactions) ==
  IF transactions = <<>> THEN Num(0)
  ELSE FAdd(SumAmounts(SubSeq(transactions, 1, Len(transactions) - 1)),
            transactions[Len(transactions)].amount)

WithStatus(transactions, status) ==
  SelectSeq(transactions, LAMBDA t : t.status = status)

WithoutStatus(transactions, status) ==
  SelectSeq(transactions, LAMBDA t : t.status # status)

\* C6: calculateMetrics adds each amount to exactly the bucket of its
\* status: each of totalApproved, totalPending, totalDeclined, totalRefunded
\* is the sum of the amounts holding that status, totalTransactions is the
\* length, a CANCELLED transaction is counted but changes no bucket and not
\* totalRevenue; the empty collection gives all zeros and the synthetic
\* dataset gives 430.50, 320.75, 95.00, 450.25, -19.75 and 5.
C6_OneBucketPerStatus ==
  mPc = "done" =>
    /\ mMetrics.totalApproved = SumAmounts(WithStatus(mTransactions, APPROVED))
    /\ mMetrics.totalPending = SumAmounts(WithStatus(mTransactions, PENDING))
    /\ mMetrics.totalDeclined = SumAmounts(WithStatus(mTransactions, DECLINED))
    /\ mMetrics.totalRefunded = SumAmounts(WithStatus(mTransactions, REFUNDED))
    /\ mMetrics.totalTransactions = Len(mTransactions)
    /\ LET rest == calculateMetrics(WithoutStatus(mTransactions, CANCELLED))
       IN  mMetrics = [rest EXCEPT !.totalTransactions = Len(mTransactions)]
    /\ (mTransactions = <<>> =>
          mMetrics = [totalApproved |-> Num(0), totalPending |-> Num(0),
                      totalDeclined |-> Num(0), totalRefunded |-> Num(0),
                      totalTransactions |-> 0, totalRevenue |-> Num(0)])
    /\ (mTransactions = getMockTransactions =>
          mMetrics = [totalApproved |-> Dec(430, 50),
                      totalPending |-> Dec(320, 75),
                      totalDeclined |-> Dec(95, 0),
                      totalRefunded |-> Dec(450, 25),
                      totalTransactions |-> 5,
                      totalRevenue |-> Num(0 - Dec(19, 75).v)])

\* a CANCELLED transaction beside an APPROVED one has been aggregated
C6_Witness ==
  /\ mPc = "done"
  /\ \E i \in 1..Len(mTransactions) : mTransactions[i].status = CANCELLED
  /\ \E i \in 1..Len(mTransactions) : mTransactions[i].status = APPROVED
  /\ mMetrics.totalApproved # Num(0)

Reordered(transactions, p) == [i \in 1..Len(transactions) |-> transactions[p[i]]]

\* C7: calculateMetrics is an order-independent reduction: every permutation
\* of the collection gives the same six metrics as the collection itself.
C7_OrderIndependent ==
  mPc = "done" =>
    \A p \in Permutations(1..Len(mTransactions)) :
      calculateMetrics(Reordered(mTransactions, p)) = mMetrics
(***************************************************************************)
(* Claims about applyFilters (SpecFilter).                                 *)
(***************************************************************************)
StatusActive(filters) == ~Falsy(filters.status) /\ filters.status # all

SearchActive(filters) == ~Falsy(filters.searchQuery)

DateActive(filters) ==
  filters.dateRange # NoRange /\ filters.dateRange[1] # 0

OnlyStatus(filters) == [EmptyFilters EXCEPT !.status = filters.status]

OnlySearch(filters) == [EmptyFilters EXCEPT !.searchQuery = filters.searchQuery]

OnlyDate(filters) == [EmptyFilters EXCEPT !.dateRange = filters.dateRange]

\* the transaction passes every predicate the filters value switches on
PassesAll(t, filters, clock) ==
  /\ StatusActive(filters) => StatusMatches(t, filters)
  /\ SearchActive(filters) => SearchMatches(t, filters)
  /\ DateActive(filters) => DateMatches(t, filters, clock)

\* C8: applyFilters composes its predicates as a logical AND: the result is
\* exactly the sub-sequence, in input order, of the transactions satisfying
\* the status, the search and the date-range predicate; it equals the three
\* filters applied one at a time in any order; with no filter field the
\* result equals the input.
C8_FiltersComposeAsAnd ==
  fPc = "done" =>
    IF fFilters = null THEN fResult = fTransactions
    ELSE LET s == OnlyStatus(fFilters)
             q == OnlySearch(fFilters)
             d == OnlyDate(fFilters)
             One(f, txs) == applyFilters(txs, f, now)
         IN  /\ fResult = SelectSeq(fTransactions,
                                    LAMBDA t : PassesAll(t, fFilters, now))
             /\ fResult = One(d, One(q, One(s, fTransactions)))
             /\ fResult = One(q, One(d, One(s, fTransactions)))
             /\ fResult = One(d, One(s, One(q, fTransactions)))
             /\ fResult = One(s, One(d, One(q, fTransactions)))
             /\ fResult = One(q, One(s, One(d, fTransactions)))
             /\ fResult = One(s, One(q, One(d, fTransactions)))
             /\ (fFilters = EmptyFilters => fResult = fTransactions)

\* all three filters are switched on; one transaction passes, one does not
C8_Witness ==
  /\ fPc = "done"
  /\ fFilters # null
  /\ StatusActive(fFilters) /\ SearchActive(fFilters) /\ DateActive(fFilters)
  /\ Len(fTransactions) = 2
  /\ Len(fResult) = 1

EqualsIgnoringCase(a, b) == toLowerCase(a) = toLowerCase(b)

\* the result of the call had filters.status not been supplied
WithoutStatusFilter ==
  applyFilters(fTransactions, [fFilters EXCEPT !.status = undefined], now)

\* what C9 states of a call whose status filter counts as supplied
StatusFilterHolds(supplied) ==
  IF supplied
    THEN /\ fResult = SelectSeq(WithoutStatusFilter,
                LAMBDA t : EqualsIgnoringCase(t.status, fFilters.status))
         /\ fFilters.status \in ApprovedSpellings =>
              /\ \A i \in 1..Len(fResult) : fResult[i].status = APPROVED
              /\ ~SearchActive(fFilters) /\ ~DateActive(fFilters) =>
                   fResult = WithStatus(fTransactions, APPROVED)
    ELSE fResult = WithoutStatusFilter

\* C9 as stated: whenever filters.status is present and is not 'all', the
\* result holds exactly the transactions whose status equals filters.status
\* ignoring letter case; when it is absent or 'all', the status predicate
\* removes nothing.
C9_StatusFilterWhenPresent ==
  fPc = "done" /\ fFilters # null =>
    StatusFilterHolds(fFilters.status # undefined /\ fFilters.status # all)

\* C9 as amended: whenever filters.status is present, not the empty string
\* and not 'all', the result holds exactly the transactions whose status
\* equals filters.status ignoring letter case ('approved', 'Approved' and
\* 'APPROVED' all return only APPROVED transactions); when it is absent,
\* the empty string or 'all', the status predicate removes nothing.
C9_StatusFilterWhenNonEmpty ==
  fPc = "done" /\ fFilters # null =>
    StatusFilterHolds(~Falsy(fFilters.status) /\ fFilters.status # all)

\* status 'approved' kept the APPROVED transaction and removed the other
C9_Witness ==
  /\ fPc = "done"
  /\ fFilters # null
  /\ fFilters.status = ApprovedLower
  /\ fTransactions = <<getMockTransactions[5], getMockTransactions[1]>>
  /\ fResult = <<getMockTransactions[1]>>

\* q occurs in s as a run of consecutive characters
IsSubstring(q, s) ==
  \E a \in 0..Len(s) : \E b \in a..Len(s) : SubSeq(s, a + 1, b) = q

SearchFields == {"customerName", "customerEmail", "id", "description"}

\* the lower-cased query occurs in one of the four lower-cased fields
QueryOccurs(t, searchQuery) ==
  \E f \in SearchFields :
    t[f] # undefined /\ IsSubstring(toLowerCase(searchQuery), toLowerCase(t[f]))

\* C10: search filtering keeps exactly the transactions for which the
\* lower-cased searchQuery is a substring of the lower-cased customerName,
\* customerEmail, id or description; one matching none is excluded, and an
\* absent customerName, customerEmail or description is skipped.
C10_SearchFilter ==
  fPc = "done" /\ fFilters # null /\ fFilters.searchQuery # undefined =>
    fResult =
      SelectSeq(
        applyFilters(fTransactions,
                     [fFilters EXCEPT !.searchQuery = undefined], now),
        LAMBDA t : QueryOccurs(t, fFilters.searchQuery))

\* 'JOHN' kept John Doe's transaction and excluded the one whose customer
\* name, email and description are absent
C10_Witness ==
  /\ fPc = "done"
  /\ fFilters # null
  /\ fFilters.searchQuery = QueryJohnUpper
  /\ fTransactions = <<BareTransaction, getMockTransactions[1]>>
  /\ fResult = <<getMockTransactions[1]>>

\* fFilters with the date range taken out
WithoutDateRange == [fFilters EXCEPT !.dateRange = NoRange]

\* C11: for every supplied dateRange N, 0 included, the result holds
\* exactly the transactions created on or after (now - N days), every
\* earlier one is excluded; only an absent dateRange applies no date
\* constraint.
C11_DateRangeFilter ==
  fPc = "done" /\ fFilters # null =>
    LET others == applyFilters(fTransactions, WithoutDateRange, now)
    IN  IF fFilters.dateRange = NoRange THEN fResult = others
        ELSE fResult =
               SelectSeq(others,
                         LAMBDA t : t.createdDate >=
                                      now - fFilters.dateRange[1] * TicksPerDay)

\* a range of 7 days was applied and removed a transaction
C11_Witness ==
  /\ fPc = "done"
  /\ fFilters # null
  /\ fFilters.dateRange = RangeOf(7)
  /\ fFilters.status = undefined
  /\ fFilters.searchQuery = undefined
  /\ Len(fResult) < Len(fTransactions)
  /\ Len(fResult) > 0

\* C12: applyFilters never mutates its input: when the call returns, the
\* input collection has the length, the elements, their order and their
\* field values it had when the call was made, for every filters value,
\* absent included.
C12_InputNotMutated ==
  [][fPc = "ready" /\ fPc' = "done" =>
       /\ fInput' = fInput
       /\ fInput' = fTransactions
       /\ Len(fInput') = Len(fTransactions)]_vars

\* a call whose filters removed a transaction from the result has
\* returned, and the caller has not touched the result
C12_Witness ==
  /\ fPc = "done"
  /\ fFilters # null
  /\ fReturned = "copy"
  /\ fTransactions # <<>>
  /\ Len(fResult) < Len(fTransactions)
  /\ fInput = fTransactions

\* C13: applyFilters always returns a new collection, also when filters is
\* absent or empty: the returned array is not the input array, so a later
\* modification of the returned array does not change the input.
C13_ReturnsNewCollection ==
  fPc \in {"done", "popped"} => fReturned = "copy" /\ fInput = fTransactions

\* filters is absent and the caller has popped the returned array
C13_Witness ==
  /\ fPc = "popped"
  /\ fFilters = null
  /\ fTransactions # <<>>
  /\ Len(fResult) < Len(fTransactions)

\* the amount object of the record handed to the transformer: payment.amount
\* or refund.summary.refunded
RecordAmount == IF tKind = "payment" THEN tRecord.amount ELSE tRecord.refunded

\* the provider's amount string (undefined: there is none)
AmountString == Opt(RecordAmount, "amount")

\* the string is a decimal number: an optional sign, digits, and optionally
\* a point and more digits
IsDecimalText(s) ==
  LET body == IF s # <<>> /\ s[1] = "-" THEN Tail(s) ELSE s
      whole == DigitRun(body, 1)
  IN  /\ whole > 0
      /\ \/ whole = Len(body)
         \/ /\ body[whole + 1] = "."
            /\ whole + 1 < Len(body)
            /\ whole + 1 + DigitRun(body, whole + 2) = Len(body)

\* C14: when the provider amount string is missing or cannot be parsed as
\* a decimal number the produced Transaction's amount is 0, when it can be
\* parsed the amount is the parsed value; the amount is never NaN.
C14_AmountParsing ==
  tPc = "done" =>
    /\ ~tResult.amount.nan
    /\ IF AmountString # undefined /\ IsDecimalText(AmountString)
         THEN tResult.amount = parseFloat(AmountString)
         ELSE tResult.amount = Num(0)

\* a record without an amount string was transformed
C14_Witness ==
  /\ tPc = "done"
  /\ AmountString = undefined
  /\ tResult.amount = Num(0)

\* C15: every Transaction the pipeline produces (by either transformer, or
\* taken from the synthetic dataset) has a non-negative number as amount and
\* a status among APPROVED, PENDING, DECLINED, REFUNDED, CANCELLED, whatever
\* amount and status strings the provider record carries.
C15_DataModelInvariant ==
  /\ \A i \in 1..Len(getMockTransactions) :
       /\ ~getMockTransactions[i].amount.nan
       /\ getMockTransactions[i].amount.v >= 0
       /\ getMockTransactions[i].status \in CanonicalStatus
  /\ tPc = "done" =>
       /\ ~tResult.amount.nan
       /\ tResult.amount.v >= 0
       /\ tResult.status \in CanonicalStatus

\* a record with a negative amount string was transformed
C15_Witness ==
  /\ tPc = "done"
  /\ AmountString = <<"-","5">>
  /\ tResult.status \in CanonicalStatus

\* C16: the currency is the record's own when it has one, otherwise the
\* parent order's when it has one, otherwise EUR; no order at all counts as
\* an order without currency.
C16_CurrencyResolution ==
  tPc = "done" =>
    LET own == Opt(RecordAmount, "currency")
        parent == Opt(tOrder, "currency")
    IN  /\ ~Falsy(own) => tResult.currency = own
        /\ Falsy(own) /\ ~Falsy(parent) => tResult.currency = parent
        /\ Falsy(own) /\ Falsy(parent) => tResult.currency = EUR

\* a payment without currency under an order in USD became a USD transaction
C16_Witness ==
  /\ tPc = "done"
  /\ tKind = "payment"
  /\ Opt(RecordAmount, "currency") = undefined
  /\ tOrder # null
  /\ tOrder.currency = <<"U","S","D">>
  /\ tResult.currency = <<"U","S","D">>

\* the payment and refund records of a listing, in the order of the loop
RECURSIVE RecordsListed(_, _)
RecordsListed(orderTransactions, i) ==
  IF ~orderTransactions.present \/ i > Len(orderTransactions.items) THEN <<>>
  ELSE orderTransactions.items[i].payments.items
       \o orderTransactions.items[i].refunds.items
       \o RecordsListed(orderTransactions, i + 1)

\* no two records of the listing carry the same provider id
ProviderIdsDistinct(orderTransactions) ==
  LET records == RecordsListed(orderTransactions, 1)
  IN  \A i, j \in 1..Len(records) :
        i < j /\ records[i]._id # undefined => records[i]._id # records[j]._id

\* C17: no two transactions in the data of one fetchTransactions call
\* have the same id, also when several records without a provider id are
\* transformed during the same fetch.
C17_IdsUniqueWithinFetch ==
  /\ call.pc = "settled"
  /\ call.failure = "none"
  /\ ProviderIdsDistinct(call.listed)
  => \A i, j \in 1..Len(call.data) :
       i < j => call.data[i].id # call.data[j].id

\* a live fetch returned two transactions, one of them with a fabricated id
C17_Witness ==
  /\ call.pc = "settled"
  /\ call.failure = "none"
  /\ ProviderIdsDistinct(call.listed)
  /\ Len(call.data) = 2
  /\ \E i \in 1..2 :
       /\ Len(call.data[i].id) > Len(TxnPrefix)
       /\ SubSeq(call.data[i].id, 1, Len(TxnPrefix)) = TxnPrefix

\* the status the pre-filter sees for a record of the given kind
PreFilterStatus(kind, record) ==
  IF kind = "payment"
    THEN mapStatus(Opt(record.regularPaymentDetails, "status"))
    ELSE REFUNDED

\* the records of one list that the status pre-filter lets through
PassingCount(kind, records, filters) ==
  Cardinality({k \in 1..Len(records.items) :
                 \/ filters = null
                 \/ Falsy(filters.status)
                 \/ filters.status = all
                 \/ toLowerCase(filters.status)
                      = toLowerCase(PreFilterStatus(kind, records.items[k]))})

RECURSIVE PassingTotal(_, _, _)
PassingTotal(orderTransactions, filters, i) ==
  IF ~orderTransactions.present \/ i > Len(orderTransactions.items) THEN 0
  ELSE PassingCount("payment", orderTransactions.items[i].payments, filters)
       + PassingCount("refund", orderTransactions.items[i].refunds, filters)
       + PassingTotal(orderTransactions, filters, i + 1)

\* every listed record is an object, whatever fields it lacks
AllRecordsAreObjects(orderTransactions) ==
  \A k \in 1..Len(RecordsListed(orderTransactions, 1)) :
    RecordsListed(orderTransactions, 1)[k] # null

\* C18: a record with missing fields never aborts the batch: when both
\* provider calls succeed and every listed payment and refund is a record
\* (an object with any combination of missing fields, under an order that
\* is absent or has missing fields), nothing throws and the fetch returns
\* usingMockData = false with one Transaction for every record that passes
\* the status pre-filter, the well-formed records included.
C18_MalformedRecordKeepsBatch ==
  /\ call.pc = "settled"
  /\ call.failure \in {"none", "transform"}
  /\ AllRecordsAreObjects(call.listed)
  => /\ call.failure = "none"
     /\ call.settled = "resolved"
     /\ call.usingMockData = FALSE
     /\ Len(call.data) = PassingTotal(call.listed, call.filters, 1)
     /\ \A i \in 1..Len(call.data) :
          /\ call.data[i].status \in CanonicalStatus
          /\ call.data[i].id # undefined
          /\ call.data[i].currency # undefined
          /\ call.data[i].customerName # undefined

\* a record without any field and a well-formed one were listed together;
\* both are in the result, the first built from the defaults
C18_Witness ==
  /\ call.pc = "settled"
  /\ call.failure = "none"
  /\ call.filters = null
  /\ RecordsListed(call.listed, 1) = <<PaymentBare, PaymentRecent>>
  /\ Len(call.data) = 2
  /\ call.data[1].paymentMethod = Unknown
  /\ call.data[1].amount = Num(0)
  /\ call.data[1].customerName = Customer
  /\ call.data[2].id = PaymentRecent._id

\* the call carries a status filter that is not 'all'
StatusFilterGiven ==
  /\ call.filters # null
  /\ ~Falsy(call.filters.status)
  /\ call.filters.status # all

\* C21: for any fetchTransactions call whose status filter is present and
\* is not 'all', every transaction in the returned data has a status equal
\* to the filter ignoring case, when the data is live and when it is the
\* synthetic fallback dataset.
C21_StatusPreFilterOnEveryResult ==
  call.pc = "settled" /\ StatusFilterGiven =>
    \A i \in 1..Len(call.data) :
      toLowerCase(call.data[i].status) = toLowerCase(call.filters.status)

\* a live fetch with a status filter dropped one of two listed records
C21_Witness ==
  /\ call.pc = "settled"
  /\ StatusFilterGiven
  /\ call.failure = "none"
  /\ Len(RecordsListed(call.listed, 1)) = 2
  /\ Len(call.data) = 1

(***************************************************************************)
(* Claims about the dashboard page (SpecDashboard).                        *)
(***************************************************************************)
\* the invocation that completed last
LastCompleted ==
  CHOOSE i \in Completed : inv[i].order = Cardinality(Completed)

\* C19: last-to-complete wins with full replacement: however the load and
\* refresh invocations in flight interleave, once invocations have
\* completed the dashboard's transactions, metrics and usingMockData are
\* exactly those of the invocation that completed last, whichever was
\* started first, and hold no element of an earlier result.
C19_LastToCompleteWins ==
  Completed # {} =>
    LET result == inv[LastCompleted].result
    IN  /\ ui.transactions = result.data
        /\ Len(ui.transactions) = Len(result.data)
        /\ ui.metrics = calculateMetrics(result.data)
        /\ ui.usingMockData = result.usingMockData

\* a refresh started while the load was in flight and completed first; the
\* load completed last with a different result, which the dashboard holds
C19_Witness ==
  /\ Len(inv) >= 2
  /\ Completed = 1..Len(inv)
  /\ inv[1].kind = "load"
  /\ inv[2].kind = "refresh"
  /\ inv[2].order = 1
  /\ inv[1].order = Cardinality(Completed)
  /\ inv[1].result.data # inv[2].result.data
  /\ inv[2].result.data # <<>>
  /\ ui.transactions = inv[1].result.data

(***************************************************************************)
(* Claims about the backend endpoints (SpecEndpoint).                      *)
(***************************************************************************)
\* C20: GET and POST answer every provider outcome (orders and
\* transactions returned, no orders found, an exception from either
\* provider call) with status 200 and a body holding success = true, the
\* data, usingMockData, and the metrics computed over exactly that data; the
\* body { success: false, error } with status 500 is produced only when
\* building the response itself throws.
C20_EndpointAlwaysAnswers ==
  http.pc = "responded" =>
    LET response == http.response
        ok == response.status = 200
        computed == calculateTransactionMetrics(http.transactionData)
    IN  /\ response.status \in {200, 500}
        /\ ok <=> ~http.stageThrew
        /\ ok =>
             /\ response.body.success = TRUE
             /\ response.body.data = JsonData(http.transactionData)
             /\ response.body.metrics = JsonMetrics(computed)
             /\ response.body.metrics.totalTransactions
                  = Len(response.body.data)
             /\ response.body.usingMockData = (http.outcome # "live")
             /\ http.outcome # "live" =>
                  http.transactionData = getMockTransactions
        /\ ~ok =>
             /\ response.body.success = FALSE
             /\ response = ErrorResponse(http.method)

\* POST answered 200 with the mock data after the listing threw
C20_Witness ==
  /\ http.pc = "responded"
  /\ http.method = "POST"
  /\ http.outcome = "listTransactions"
  /\ http.response.status = 200
  /\ http.response.body.usingMockData = TRUE
  /\ Len(http.response.body.data) = 5
\* C22: in every state of the dashboard reachable by load, refresh and
\* filter-change events the headline metrics are calculateMetrics of the
\* full transactions set held, never of the filtered view; the metrics, the
\* transactions and usingMockData come from one completed invocation; before
\* the first completion the transactions set is empty and every metric is
\* zero.
C22_MetricsOverFullSet ==
  /\ ui.metrics = calculateMetrics(ui.transactions)
  /\ ui.metrics.totalTransactions = Len(ui.transactions)
  /\ \/ /\ Completed = {}
        /\ ui.transactions = <<>>
        /\ ui.metrics = InitialUi.metrics
     \/ \E i \in Completed :
          /\ ui.transactions = inv[i].result.data
          /\ ui.metrics = calculateMetrics(inv[i].result.data)
          /\ ui.usingMockData = inv[i].result.usingMockData

\* an invocation has completed and the filter effect has narrowed the view
\* to fewer rows than the transactions held; the metrics still count them all
C22_Witness ==
  /\ Completed # {}
  /\ ~ui.effectPending
  /\ ui.filterValue # all
  /\ Len(ui.filteredTransactions) < Len(ui.transactions)
  /\ calculateMetrics(ui.filteredTransactions) # ui.metrics
  /\ ui.metrics.totalTransactions = Len(ui.transactions)
\* a is b with some elements left out, the order kept
RECURSIVE SubCollectionFrom(_, _, _, _)
SubCollectionFrom(a, i, b, j) ==
  IF i > Len(a) THEN TRUE
  ELSE IF j > Len(b) THEN FALSE
  ELSE IF a[i] = b[j] THEN SubCollectionFrom(a, i + 1, b, j + 1)
  ELSE SubCollectionFrom(a, i, b, j + 1)

IsSubCollection(a, b) == SubCollectionFrom(a, 1, b, 1)

\* the days of the selected time period option
SelectedDays ==
  IF ui.timePeriod = <<"7">> THEN 7
  ELSE IF ui.timePeriod = <<"3","0">> THEN 30
  ELSE IF ui.timePeriod = <<"9","0">> THEN 90
  ELSE 365

\* the filters the controls select: the status unless 'all', the search
\* text unless empty, the time period in days
SelectedFilters ==
  [status |-> IF ui.filterValue = all THEN undefined ELSE ui.filterValue,
   searchQuery |-> IF ui.searchValue = <<>> THEN undefined ELSE ui.searchValue,
   dateRange |-> RangeOf(SelectedDays)]

InFlight == {i \in 1..Len(inv) : inv[i].pc = "awaiting"}

\* the view is the filtered set: with no invocation in flight and no filter
\* effect pending, filteredTransactions is applyFilters of the transactions
\* held under the selected filters, as computed at the clock reading of the
\* effect's last run; the view is always a sub-collection of transactions
ViewIsFiltered ==
  /\ IsSubCollection(ui.filteredTransactions, ui.transactions)
  /\ InFlight = {} /\ ~ui.effectPending =>
       ui.filteredTransactions =
         applyFilters(ui.transactions, SelectedFilters, ui.effectRanAt)

\* C23: the displayed view converges to the filtered set: whenever no
\* invocation is in flight and no filter effect is pending,
\* filteredTransactions equals applyFilters(transactions, {status: the
\* selected status unless 'all', searchQuery: the search text unless empty,
\* dateRange: the selected time period in days}); after a completion or a
\* change of status, search text or time period the rows are re-filtered
\* (the pending filter effect is run), and the rows are always a
\* sub-collection of transactions.
C23_ViewConvergesToFiltered ==
  /\ []ViewIsFiltered
  /\ ui.effectPending ~> ~ui.effectPending

\* every invocation has completed, the status and the search text were
\* changed and the effect has run: the view holds some rows, not all
C23_Witness ==
  /\ Completed # {} /\ InFlight = {}
  /\ ~ui.effectPending
  /\ ui.filterValue # all /\ ui.searchValue # <<>>
  /\ ui.timePeriod = <<"7">>
  /\ ui.filteredTransactions # <<>>
  /\ Len(ui.filteredTransactions) < Len(ui.transactions)
\* C24: the loading flag tracks the work in flight: loading is true in
\* every state in which a load or refresh invocation has started and not
\* yet completed (so that the Refresh button, disabled while loading,
\* starts a refresh only when nothing is in flight, and loading is false
\* again once the work has completed).
C24_LoadingTracksInFlight ==
  InFlight # {} => ui.loading

\* a refresh is in flight, loading is true and the rendered Refresh button
\* is disabled
C24_Witness ==
  /\ \E i \in InFlight : inv[i].kind = "refresh"
  /\ ui.loading
  /\ shown.disabled

====
